---- MODULE Spec2Model ----
(***************************************************************************)
(* Goal / plan lifecycle and step-list reconciliation of the life-planner  *)
(* coaching server (src/server/app): the goals, plans and messages tables  *)
(* and the request handlers that read and write them.                      *)
(***************************************************************************)
EXTENDS Integers, Sequences, FiniteSets, Bags, TLC

\* ------------------------------------------------------------------------
\* Bounds of the model
\* ------------------------------------------------------------------------
\* how many of the generator's base steps a generated plan carries
NumBaseSteps == 2
\* longest step list a plan row may hold
MaxSteps == 3
\* longest step list the generative producer returns
MaxCand == 1
\* most tool invocations (intermediate steps) of one chat turn
MaxToolCalls == 1
\* most rows of the messages table
MaxMsgs == 4
\* the longest step list the create_plan merge is applied to on its own
MaxMergeLen == 3
\* plans the in-memory server stores
MaxPlans == 2
\* chat turns a session of the in-memory server takes
MaxTurns == 3

\* ------------------------------------------------------------------------
\* Text: a string is a sequence of one-character strings
\* ------------------------------------------------------------------------
UpperChars ==
  <<"A","B","C","D","E","F","G","H","I","J","K","L","M",
    "N","O","P","Q","R","S","T","U","V","W","X","Y","Z">>
LowerChars ==
  <<"a","b","c","d","e","f","g","h","i","j","k","l","m",
    "n","o","p","q","r","s","t","u","v","w","x","y","z">>
Digits == <<"0","1","2","3","4","5","6","7","8","9">>
Whitespace == {" "}

LowerChar(c) ==
  IF \E i \in 1..26 : UpperChars[i] = c
  THEN LowerChars[CHOOSE i \in 1..26 : UpperChars[i] = c]
  ELSE c

\* str.lower()
ToLower(s) == [i \in 1..Len(s) |-> LowerChar(s[i])]

\* `sub in s`
Contains(s, sub) ==
  \E i \in 0..(Len(s) - Len(sub)) : SubSeq(s, i + 1, i + Len(sub)) = sub

\* str.strip()
Strip(s) ==
  LET keep == {i \in 1..Len(s) : s[i] \notin Whitespace}
  IN  IF keep = {} THEN <<>>
      ELSE LET lo == CHOOSE i \in keep : \A j \in keep : i <= j
               hi == CHOOSE i \in keep : \A j \in keep : j <= i
           IN  SubSeq(s, lo, hi)

IsDigit(c) == \E d \in 1..10 : Digits[d] = c
DigitVal(c) == (CHOOSE d \in 1..10 : Digits[d] = c) - 1

\* int(digits) for a non-empty run of decimal digits
RECURSIVE ParseInt(_)
ParseInt(ds) ==
  IF ds = <<>> THEN 0
  ELSE 10 * ParseInt(SubSeq(ds, 1, Len(ds) - 1)) + DigitVal(ds[Len(ds)])

\* re.findall(r'\d+', s)[0]: the first maximal run of digits (<<>> if none)
FirstNumber(s) ==
  LET ds == {i \in 1..Len(s) : IsDigit(s[i])}
  IN  IF ds = {} THEN <<>>
      ELSE LET lo == CHOOSE i \in ds : \A j \in ds : i <= j
               hi == CHOOSE i \in lo..Len(s) :
                       /\ \A j \in lo..i : IsDigit(s[j])
                       /\ (i = Len(s) \/ ~IsDigit(s[i + 1]))
           IN  SubSeq(s, lo, hi)

SkipWord == <<"s","k","i","p">>
FinalizePhrase ==
  <<"s","h","a","l","l"," ","w","e"," ","f","i","n","a","l","i","z","e">>

show_only_keywords ==
  { <<"s","h","o","w"," ","t","h","e"," ","p","l","a","n">>,
    <<"s","h","o","w"," ","p","l","a","n">>,
    <<"s","e","e"," ","t","h","e"," ","p","l","a","n">>,
    <<"v","i","e","w"," ","t","h","e"," ","p","l","a","n">>,
    <<"l","e","t","'","s"," ","s","e","e">>,
    <<"s","h","o","w"," ","m","e">>,
    <<"d","i","s","p","l","a","y"," ","t","h","e"," ","p","l","a","n">> }

\* a show-only test that looks for the phrases alone
is_show_only_phrases(request) ==
  \E keyword \in show_only_keywords :
    Contains(ToLower(Strip(request)), keyword)

\* is_show_only of the modify_plan branch
is_show_only(request) ==
  LET modification_request == ToLower(Strip(request))
  IN  \/ modification_request = <<>>
      \/ \E keyword \in show_only_keywords :
           Contains(modification_request, keyword)

\* the "skip" test of modify_plan_with_agent
is_skip(request) == Contains(ToLower(request), SkipWord)

\* a skip count that defaults to no step
skip_count_no_default(request) ==
  LET numbers == FirstNumber(request)
  IN  IF numbers # <<>> THEN ParseInt(numbers) ELSE 0

\* skip_count = int(numbers[0]) if numbers else 1
skip_count(request) ==
  LET numbers == FirstNumber(request)
  IN  IF numbers # <<>> THEN ParseInt(numbers) ELSE 1

\* request texts a modify_plan invocation carries
ReqSkipPlain  == <<"p","l","e","a","s","e"," ","s","k","i","p"," ","t","h","i","s">>
ReqSkipZero   == <<"s","k","i","p"," ","0">>
ReqSkipFirst  == <<"S","K","I","P"," ","1"," ","o","f"," ","2">>
ReqSkipTen    == <<"s","k","i","p"," ","1","0"," ","s","t","e","p","s">>
ReqShow       == <<"S","h","o","w"," ","m","e"," ","s","t","e","p"," ","1">>
ReqBlank      == <<" ">>
ReqHarder     == <<"m","a","k","e"," ","i","t"," ","h","a","r","d","e","r">>
Requests ==
  { ReqSkipPlain, ReqSkipZero, ReqSkipFirst, ReqSkipTen,
    ReqShow, ReqBlank, ReqHarder }

\* reply texts of the agent
ReplyPlain == <<"O","k">>
ReplyFinalize ==
  <<"S","h","a","l","l"," ","W","e"," ","f","i","n","a","l","i","z","e"," ","i","t","?">>
Replies == { ReplyPlain, ReplyFinalize }

\* the three tests the handlers make of a request text, tabulated once for
\* the request texts above
RequestTests ==
  [r \in Requests |->
     [show_only |-> is_show_only(r), skip |-> is_skip(r),
      count |-> skip_count(r)]]

\* "shall we finalize" in output.lower(), tabulated for the reply texts
AsksToFinalize == [o \in Replies |-> Contains(ToLower(o), FinalizePhrase)]

\* ------------------------------------------------------------------------
\* Steps and step lists
\* ------------------------------------------------------------------------
BaseTitles ==
  << "Getting Started", "Foundation Building", "Practice Phase",
     "Intermediate Progress", "Advanced Techniques", "Consistency Building",
     "Challenge Yourself", "Mastery" >>

\* PlanService._generate_steps, cut to its first NumBaseSteps entries
base_steps ==
  [i \in 1..NumBaseSteps |->
     [id |-> i, title |-> BaseTitles[i], completed |-> FALSE]]

GenTitles == { "Generated step" }
\* a step object as the generative producer may return it: any id, any flag
GenSteps == [id : {0}, title : GenTitles, completed : BOOLEAN]

SeqsUpTo(S, n) == UNION { [1..m -> S] : m \in 0..n }

\* [step for step in steps if step.get("completed", False)]
completed_steps(steps) == SelectSeq(steps, LAMBDA step : step.completed)
\* [step for step in steps if not step.get("completed", False)]
remaining_steps(steps) == SelectSeq(steps, LAMBDA step : ~step.completed)

\* for idx, step in enumerate(steps, 1): step["id"] = idx
Renumber(steps) == [idx \in 1..Len(steps) |-> [steps[idx] EXCEPT !.id = idx]]

\* dict.get(key, default)
Get(d, key, default) == IF key \in DOMAIN d THEN d[key] ELSE default

\* ------------------------------------------------------------------------
\* Tables and values
\* ------------------------------------------------------------------------
GoalIds == { "g1" }
\* a goal id no row of the goals table carries
MissingGoal == "g0"

Stages == { "onboarding", "confirming", "pending_acceptance", "active",
            "completed" }

TitleJourney   == "Your goal Journey"
TitlePlan      == "Your goal Plan"
TitleGenerated == "Generated title"

NoNote == [kind |-> "none", n |-> 0]
NoPlanData ==
  [present |-> FALSE, title |-> "", steps |-> <<>>, total_steps |-> 0,
   status |-> "", note |-> NoNote]

\* the plan_data dictionary built from a plans row
PlanView(plan, note) ==
  [present |-> TRUE, title |-> plan.title, steps |-> plan.steps,
   total_steps |-> plan.total_steps, status |-> plan.status, note |-> note]

VARIABLES
  goals,     \* goals table: goal id -> [status, current_step]
  plans,     \* plans table: sequence of rows, in insertion order
  messages,  \* messages table: sequence of rows, in insertion order
  awaiting,  \* the agents suspended at the await of process_message
  turn,      \* the chat turn being handled: the CoachingAgent's own state
  last       \* the last handler step taken and what it returned

vars == << goals, plans, messages, awaiting, turn, last >>

\* .select('*').eq('goal_id', g): the rows of a goal, in table order
PlansOf(table, g) == SelectSeq(table, LAMBDA row : row.goal_id = g)

\* an update of the plans table without its .eq filter
UpdatePlans_unfiltered(table, g, title, steps, total_steps, status) ==
  [i \in 1..Len(table) |->
     [goal_id |-> table[i].goal_id, title |-> title, steps |-> steps,
      total_steps |-> total_steps, status |-> status]]

\* an update that writes the title, the steps and the status, and leaves
\* total_steps as the row has it
UpdatePlans_keeping_total(table, g, title, steps, total_steps, status) ==
  [i \in 1..Len(table) |->
     IF table[i].goal_id = g
     THEN [goal_id |-> g, title |-> title, steps |-> steps,
           total_steps |-> table[i].total_steps, status |-> status]
     ELSE table[i]]

\* .update(fields).eq('goal_id', g) on the plans table
UpdatePlans(table, g, title, steps, total_steps, status) ==
  [i \in 1..Len(table) |->
     IF table[i].goal_id = g
     THEN [goal_id |-> g, title |-> title, steps |-> steps,
           total_steps |-> total_steps, status |-> status]
     ELSE table[i]]

\* ------------------------------------------------------------------------
\* Tools (agents/tools.py) and the generative producer
\* ------------------------------------------------------------------------
\* create_plan: user_data parses or json.loads raises
create_plan(user_data_ok) ==
  IF user_data_ok
  THEN [title |-> TitleJourney, steps |-> base_steps,
        total_steps |-> Len(base_steps), status |-> "pending_acceptance"]
  ELSE [error |-> "exception text"]

modify_plan(modification_request) ==
  [modification_request |-> modification_request, action |-> "modify"]

\* what the completion call of modify_plan_with_agent comes back with:
\*   error        the call raises, or the content is not a JSON object, or
\*                its "steps" is not a list
\*   bad_element  a JSON object whose "steps" list has an element that is
\*                not an object
\*   ok           a JSON object with a list of step objects
ProducerError == [kind |-> "error", has_title |-> FALSE, steps |-> <<>>]
ProducerBadElement ==
  [kind |-> "bad_element", has_title |-> FALSE, steps |-> <<>>]
ProducerOutcomes ==
  { ProducerError, ProducerBadElement } \cup
  [kind : {"ok"}, has_title : BOOLEAN, steps : SeqsUpTo(GenSteps, MaxCand)]

\* one intermediate step of the agent run: the tool, whether create_plan's
\* user_data parsed, modify_plan's request, and the producer's answer for a
\* request the producer is consulted for (neither show-only nor a skip)
ToolCalls ==
  [tool : {"create_plan"}, user_data_ok : BOOLEAN, request : {<<>>},
   producer : {ProducerError}]
  \cup
  UNION { [tool : {"modify_plan"}, user_data_ok : {TRUE}, request : {r},
           producer : IF RequestTests[r].show_only \/ RequestTests[r].skip
                      THEN {ProducerError} ELSE ProducerOutcomes] :
          r \in Requests }

\* ------------------------------------------------------------------------
\* PlanService.modify_plan_with_agent (services/plan_service.py)
\* ------------------------------------------------------------------------
\* a skip that drops the latest remaining steps
skip_steps_from_end(steps, count) ==
  LET completed == completed_steps(steps)
      remaining == remaining_steps(steps)
  IN  IF remaining # <<>> /\ count > 0
      THEN IF count >= Len(remaining)
           THEN completed
           ELSE completed \o SubSeq(remaining, 1, Len(remaining) - count)
      ELSE steps

\* the skip branch's new step list, before renumbering
skip_steps(steps, count) ==
  LET completed == completed_steps(steps)
      remaining == remaining_steps(steps)
  IN  IF remaining # <<>> /\ count > 0
      THEN IF count >= Len(remaining)
           THEN completed
           ELSE completed \o SubSeq(remaining, count + 1, Len(remaining))
      ELSE steps

\* a merge that stores the producer's list alone
merge_modified_replace(steps, modified_steps) == Renumber(modified_steps)

\* all_steps = completed_steps + modified_plan.get("steps", []), renumbered
merge_modified(steps, modified_steps) ==
  Renumber(completed_steps(steps) \o modified_steps)

\* The renumbering loop assigns ids in place to the step objects of
\* current_plan["steps"]; when it raises at an element that is not an object
\* the completed steps already carry their new ids, and the except branch
\* returns current_plan with those objects.
renumbered_until_raise(steps) ==
  [i \in 1..Len(steps) |->
     IF steps[i].completed
     THEN [steps[i] EXCEPT !.id = Len(completed_steps(SubSeq(steps, 1, i)))]
     ELSE steps[i]]

\* a modification that hands every request, a skip too, to the completion
\* endpoint
modify_plan_by_producer(modification_request, current_plan, producer) ==
  LET steps == current_plan.steps
  IN  IF remaining_steps(steps) = <<>>
      THEN [title |-> current_plan.title, steps |-> steps,
            total_steps |-> current_plan.total_steps,
            note |-> [kind |-> "all_completed", n |-> 0],
            producer_called |-> FALSE]
      ELSE IF producer.kind = "ok"
      THEN LET all_steps == merge_modified(steps, producer.steps)
           IN  [title |-> current_plan.title,
                steps |-> all_steps, total_steps |-> Len(all_steps),
                note |-> [kind |-> "updated", n |-> 0],
                producer_called |-> TRUE]
      ELSE [title |-> current_plan.title, steps |-> steps,
            total_steps |-> current_plan.total_steps,
            note |-> [kind |-> "could_not_apply", n |-> 0],
            producer_called |-> TRUE]

\* the returned dictionary: title, steps, total_steps, modification_note,
\* and whether the completion endpoint was called
modify_plan_with_agent(modification_request, current_plan, producer) ==
  LET steps == current_plan.steps
  IN  IF RequestTests[modification_request].skip
      THEN LET count == RequestTests[modification_request].count
               new_steps == Renumber(skip_steps(steps, count))
           IN  [title |-> current_plan.title, steps |-> new_steps,
                total_steps |-> Len(new_steps),
                note |-> [kind |-> "skipped", n |-> count],
                producer_called |-> FALSE]
      ELSE IF remaining_steps(steps) = <<>>
      THEN [title |-> current_plan.title, steps |-> steps,
            total_steps |-> current_plan.total_steps,
            note |-> [kind |-> "all_completed", n |-> 0],
            producer_called |-> FALSE]
      ELSE IF producer.kind = "ok"
      THEN LET all_steps == merge_modified(steps, producer.steps)
           IN  [title |-> IF producer.has_title THEN TitleGenerated
                          ELSE current_plan.title,
                steps |-> all_steps, total_steps |-> Len(all_steps),
                note |-> [kind |-> "updated", n |-> 0],
                producer_called |-> TRUE]
      ELSE [title |-> current_plan.title,
            steps |-> IF producer.kind = "bad_element"
                      THEN renumbered_until_raise(steps) ELSE steps,
            total_steps |-> current_plan.total_steps,
            note |-> [kind |-> "could_not_apply", n |-> 0],
            producer_called |-> TRUE]

\* ------------------------------------------------------------------------
\* CoachingAgent._parse_response (agents/coach_agent.py)
\* ------------------------------------------------------------------------
\* a merge that keeps the remaining steps of the existing plan as well
merge_create_all(existing_steps, new_steps) ==
  Renumber(existing_steps \o new_steps)

\* a merge that puts the new steps in front of the completed ones
merge_create_new_first(existing_steps, new_steps) ==
  Renumber(new_steps \o completed_steps(existing_steps))

\* a blind replace: the new steps alone
merge_create_new_only(existing_steps, new_steps) ==
  Renumber(new_steps)

\* final_steps = completed_steps + new_steps, renumbered
merge_create(existing_steps, new_steps) ==
  Renumber(completed_steps(existing_steps) \o new_steps)

\* a create_plan branch that takes a goal loaded in onboarding to have no
\* plan, instead of reading the plans table after the agent run
handle_create_plan_stale(st, g, tool_result) ==
  LET existing == IF st.self_status = "onboarding" THEN <<>>
                  ELSE PlansOf(st.plans, g)
      new_plans ==
        IF existing # <<>>
        THEN LET existing_plan == Head(existing)
                 final_steps ==
                   merge_create(existing_plan.steps,
                                Get(tool_result, "steps", <<>>))
             IN  UpdatePlans(st.plans, g,
                   Get(tool_result, "title", existing_plan.title),
                   final_steps, Len(final_steps), "pending_acceptance")
        ELSE Append(st.plans,
               [goal_id |-> g,
                title |-> Get(tool_result, "title", TitlePlan),
                steps |-> Get(tool_result, "steps", <<>>),
                total_steps |-> Get(tool_result, "total_steps", 0),
                status |-> "pending_acceptance"])
      plan == Head(PlansOf(new_plans, g))
  IN  [st EXCEPT
         !.plans = new_plans,
         !.goals = [st.goals EXCEPT ![g].status = "pending_acceptance"],
         !.flag = "PLAN_SCREEN",
         !.plan_data = PlanView(plan, NoNote)]

\* st: the tables, self.goal['status'], flag, plan_data, producer calls
handle_create_plan(st, g, tool_result) ==
  LET existing == PlansOf(st.plans, g)
      new_plans ==
        IF existing # <<>>
        THEN LET existing_plan == Head(existing)
                 final_steps ==
                   merge_create(existing_plan.steps,
                                Get(tool_result, "steps", <<>>))
             IN  UpdatePlans(st.plans, g,
                   Get(tool_result, "title", existing_plan.title),
                   final_steps, Len(final_steps), "pending_acceptance")
        ELSE Append(st.plans,
               [goal_id |-> g,
                title |-> Get(tool_result, "title", TitlePlan),
                steps |-> Get(tool_result, "steps", <<>>),
                total_steps |-> Get(tool_result, "total_steps", 0),
                status |-> "pending_acceptance"])
      plan == Head(PlansOf(new_plans, g))
  IN  [st EXCEPT
         !.plans = new_plans,
         !.goals = [st.goals EXCEPT ![g].status = "pending_acceptance"],
         !.flag = "PLAN_SCREEN",
         !.plan_data = PlanView(plan, NoNote)]

handle_modify_plan(st, g, tool_result, producer) ==
  LET rows == PlansOf(st.plans, g)
  IN  IF rows = <<>> THEN st
      ELSE
        LET plan == Head(rows)
            request == Get(tool_result, "modification_request", <<>>)
        IN  IF RequestTests[request].show_only
            THEN [st EXCEPT !.flag = "PLAN_SCREEN",
                            !.plan_data = PlanView(plan, NoNote)]
            ELSE
              LET modified == modify_plan_with_agent(request, plan, producer)
              IN  [st EXCEPT
                     !.plans = UpdatePlans(st.plans, g, modified.title,
                                 modified.steps, modified.total_steps,
                                 "pending_acceptance"),
                     !.goals = [st.goals EXCEPT
                                  ![g].status = "pending_acceptance"],
                     !.self_status = "pending_acceptance",
                     !.flag = "PLAN_SCREEN",
                     !.plan_data =
                        [present |-> TRUE, title |-> modified.title,
                         steps |-> modified.steps,
                         total_steps |-> modified.total_steps,
                         status |-> "pending_acceptance",
                         note |-> modified.note],
                     !.producer_calls =
                        @ + (IF modified.producer_called THEN 1 ELSE 0)]

handle_tool(st, g, call) ==
  IF call.tool = "create_plan"
  THEN handle_create_plan(st, g, create_plan(call.user_data_ok))
  ELSE handle_modify_plan(st, g, modify_plan(call.request), call.producer)

\* the stage update after the loop
finalize_check(st, g, output) ==
  IF st.self_status = "onboarding" /\ AsksToFinalize[output]
  THEN [st EXCEPT !.goals = [st.goals EXCEPT ![g].status = "confirming"],
                  !.self_status = "confirming"]
  ELSE st

\* ------------------------------------------------------------------------
\* Request handlers
\* ------------------------------------------------------------------------
NoCall ==
  [tool |-> "", user_data_ok |-> TRUE, request |-> <<>>,
   producer |-> ProducerError]

\* .select('*').eq('goal_id', g).order('created_at') on the messages table
HistoryOf(table, g) == SelectSeq(table, LAMBDA row : row.goal_id = g)

\* what the tables hold for a goal, its row, its plan rows and its messages,
\* and the calls to the generative producer the turn being handled has made
Snapshot(g) ==
  [status |-> goals[g].status, current_step |-> goals[g].current_step,
   rows |-> PlansOf(plans, g), producer_calls |-> turn.producer_calls,
   history |-> HistoryOf(messages, g)]

NoSnapshot ==
  [status |-> "", current_step |-> 0, rows |-> <<>>, producer_calls |-> 0,
   history |-> <<>>]

\* the last request served: the operation, its inputs, what it answered, how
\* many intermediate steps its turn has handled, whether one of them was a
\* create_plan result with steps, and what the tables held for the goal when
\* it started
Response(op, g, rc, before) ==
  [op |-> op, goal |-> g, rc |-> rc, call |-> NoCall,
   step_id |-> 0, completed |-> FALSE, flag |-> "", stage |-> "",
   plan_data |-> NoPlanData, producer_calls |-> 0, tools |-> 0,
   created |-> FALSE, before |-> before]

\* no step completion was set while the agent run was awaited
NoToggle == [step |-> 0, completed |-> FALSE]

Idle ==
  [pc |-> "idle", goal |-> "", self_status |-> "", output |-> <<>>,
   left |-> 0, flag |-> "", plan_data |-> NoPlanData, producer_calls |-> 0,
   tools |-> 0, created |-> FALSE, overlap |-> NoToggle]

\* the suspended agents, those of goal g noting the request that has just
\* written g's step list: the position and flag set by update_step_completion,
\* or NoToggle for a write of another turn
Overlapped(bag, g, toggle) ==
  LET noted(agent) == IF agent.goal = g
                      THEN [agent EXCEPT !.overlap = toggle] ELSE agent
      agents == { noted(agent) : agent \in BagToSet(bag) }
  IN  [a \in agents |->
         BagCardinality([agent \in { x \in BagToSet(bag) : noted(x) = a } |->
                           bag[agent]])]

\* create_goal (api/routes/goals.py): every goal starts in onboarding at 0
Init ==
  /\ goals = [g \in GoalIds |-> [status |-> "onboarding", current_step |-> 0]]
  /\ plans = <<>>
  /\ messages = <<>>
  /\ awaiting = EmptyBag
  /\ turn = Idle
  /\ last = Response("create_goal", "g1", 200, NoSnapshot)

\* every handler: the goal lookup comes back empty and it raises 404
GoalNotFound ==
  /\ turn.pc = "idle"
  /\ last' = Response("any", MissingGoal, 404, NoSnapshot)
  /\ UNCHANGED << goals, plans, messages, awaiting, turn >>

\* chat_with_coach (api/routes/chat.py) up to the await in process_message:
\* the goal row is read and kept by the agent as self.goal.  Any number of
\* turns may be suspended at the await; each will save two messages.
ChatLoad(g) ==
  /\ turn.pc = "idle"
  /\ Len(SelectSeq(messages, LAMBDA row : row.goal_id \in GoalIds))
       + 2 * (BagCardinality(awaiting) + 1) <= MaxMsgs
  /\ awaiting' = awaiting (+)
                   SetToBag({[goal |-> g, self_status |-> goals[g].status,
                              overlap |-> NoToggle]})
  /\ UNCHANGED << goals, plans, messages, turn, last >>

\* agent_executor.ainvoke raises and chat_with_coach answers 500 before
\* anything is saved
ChatAgentFails ==
  \E agent \in BagToSet(awaiting) :
    /\ turn.pc = "idle"
    /\ awaiting' = awaiting (-) SetToBag({agent})
    /\ last' = Response("chat", agent.goal, 500, Snapshot(agent.goal))
    /\ UNCHANGED << goals, plans, messages, turn >>

\* a save that stores the reply alone
save_reply_only(table, g) ==
  Append(table, [goal_id |-> g, role |-> "assistant", content |-> "output"])

\* self._save_message("user", user_input) and then
\* self._save_message("assistant", response["output"])
save_messages(table, g) ==
  Append(Append(table,
                [goal_id |-> g, role |-> "user", content |-> "user_input"]),
         [goal_id |-> g, role |-> "assistant", content |-> "output"])

\* process_message after the await: the agent run ends with `n` intermediate
\* steps and the reply `output`, and the two messages are saved.  No handler
\* reads a message's content, so a row keeps only which text it holds: the
\* request's message ("user_input") or the agent's reply ("output").
ChatBegin ==
  \E agent \in BagToSet(awaiting), n \in 0..MaxToolCalls, output \in Replies :
    /\ turn.pc = "idle"
    /\ awaiting' = awaiting (-) SetToBag({agent})
    /\ messages' = save_messages(messages, agent.goal)
    /\ turn' = [Idle EXCEPT !.pc = "tools", !.goal = agent.goal,
                            !.self_status = agent.self_status,
                            !.output = output, !.left = n,
                            !.flag = "CONVERSATION",
                            !.overlap = agent.overlap]
    /\ last' = Response("chat_begin", agent.goal, 200, Snapshot(agent.goal))
    /\ UNCHANGED << goals, plans >>

\* the step list of the plan of the goal the turn is handled for
StepsOfTurn ==
  IF PlansOf(plans, turn.goal) = <<>> THEN <<>>
  ELSE Head(PlansOf(plans, turn.goal)).steps

\* the intermediate step is a create_plan result that carries steps
ToolResultHasSteps(call) ==
  call.tool = "create_plan" /\ call.user_data_ok

\* what one iteration of the loop over response["intermediate_steps"] does
\* for the intermediate step `call`
ToolStep(call) ==
    /\ turn.left > 0
    /\ \E st \in { handle_tool([plans |-> plans, goals |-> goals,
                                self_status |-> turn.self_status,
                                flag |-> turn.flag,
                                plan_data |-> turn.plan_data,
                                producer_calls |-> turn.producer_calls],
                               turn.goal, call) } :
         /\ \A i \in 1..Len(st.plans) : Len(st.plans[i].steps) <= MaxSteps
         /\ plans' = st.plans
         /\ goals' = st.goals
         /\ turn' = [turn EXCEPT !.pc = "tools", !.left = @ - 1,
                                 !.self_status = st.self_status,
                                 !.flag = st.flag,
                                 !.plan_data = st.plan_data,
                                 !.producer_calls = st.producer_calls,
                                 !.tools = @ + 1,
                                 !.created = @ \/ ToolResultHasSteps(call)]
         /\ last' = [Response(call.tool, turn.goal, 200,
                              Snapshot(turn.goal)) EXCEPT
                       !.call = call, !.flag = st.flag,
                       !.stage = st.self_status, !.plan_data = st.plan_data,
                       !.producer_calls = st.producer_calls,
                       !.tools = turn.tools + 1,
                       !.created =
                          turn.created \/ ToolResultHasSteps(call)]
         /\ awaiting' = Overlapped(awaiting, turn.goal, NoToggle)
         /\ UNCHANGED messages

\* an iteration that runs from its start to its end in one step
ChatToolWith(call) == turn.pc = "tools" /\ ToolStep(call)

ChatTool == \E call \in ToolCalls : ChatToolWith(call)

\* the branch of _parse_response a tool result takes writes the plans
\* table and then the goals table
WritesPlanThenGoal(g, call) ==
  \/ call.tool = "create_plan"
  \/ /\ call.tool = "modify_plan"
     /\ PlansOf(plans, g) # <<>>
     /\ ~RequestTests[call.request].show_only

\* an iteration of the loop whose plans write succeeds and whose goals
\* update raises: the exception leaves _parse_response and process_message,
\* and chat_with_coach answers 500
ChatToolGoalUpdateFails ==
  \E call \in ToolCalls :
    /\ turn.pc = "tools"
    /\ turn.left > 0
    /\ WritesPlanThenGoal(turn.goal, call)
    /\ \E st \in { handle_tool([plans |-> plans, goals |-> goals,
                                self_status |-> turn.self_status,
                                flag |-> turn.flag,
                                plan_data |-> turn.plan_data,
                                producer_calls |-> turn.producer_calls],
                               turn.goal, call) } :
         /\ \A i \in 1..Len(st.plans) : Len(st.plans[i].steps) <= MaxSteps
         /\ plans' = st.plans
         /\ turn' = Idle
         /\ last' = [Response("tool_failed", turn.goal, 500,
                              Snapshot(turn.goal)) EXCEPT
                       !.call = call, !.tools = turn.tools + 1]
         /\ awaiting' = Overlapped(awaiting, turn.goal, NoToggle)
         /\ UNCHANGED << goals, messages >>

\* the end of _parse_response: the finalize check and the returned dictionary
ChatEnd ==
  LET g == turn.goal
      st == finalize_check([goals |-> goals, self_status |-> turn.self_status],
                           g, turn.output)
  IN  /\ turn.pc = "tools"
      /\ turn.left = 0
      /\ goals' = st.goals
      /\ turn' = Idle
      /\ last' = [Response("chat", g, 200, Snapshot(g)) EXCEPT
                    !.flag = turn.flag, !.stage = st.self_status,
                    !.plan_data = turn.plan_data,
                    !.producer_calls = turn.producer_calls,
                    !.tools = turn.tools, !.created = turn.created]
      /\ UNCHANGED << plans, messages, awaiting >>

\* an acceptance that also reopens every step of the plan
accept_update_reopening(row) ==
  [row EXCEPT !.status = "accepted",
              !.steps = [i \in 1..Len(row.steps) |->
                           [row.steps[i] EXCEPT !.completed = FALSE]]]

\* .update({'status': 'accepted'}) applied to a row of the plans table
accept_update(row) == [row EXCEPT !.status = "accepted"]

\* accept_plan (api/routes/plan.py)
AcceptPlan(g) ==
  /\ turn.pc = "idle"
  /\ IF PlansOf(plans, g) = <<>>
     THEN /\ last' = Response("accept", g, 404, Snapshot(g))
          /\ UNCHANGED << goals, plans >>
     ELSE /\ plans' = [i \in 1..Len(plans) |->
                         IF plans[i].goal_id = g
                         THEN accept_update(plans[i])
                         ELSE plans[i]]
          /\ goals' = [goals EXCEPT ![g].status = "active"]
          /\ last' = [Response("accept", g, 200, Snapshot(g)) EXCEPT !.stage = "active"]
  /\ UNCHANGED << messages, awaiting, turn >>

\* accept_plan whose plans update succeeds and whose goals update raises:
\* the handler answers 500
AcceptPlanGoalUpdateFails(g) ==
  /\ turn.pc = "idle"
  /\ PlansOf(plans, g) # <<>>
  /\ plans' = [i \in 1..Len(plans) |->
                 IF plans[i].goal_id = g
                 THEN accept_update(plans[i])
                 ELSE plans[i]]
  /\ last' = Response("accept_failed", g, 500, Snapshot(g))
  /\ UNCHANGED << goals, messages, awaiting, turn >>

\* complete_goal (api/routes/plan.py)
CompleteGoal(g) ==
  /\ turn.pc = "idle"
  /\ goals' = [goals EXCEPT ![g].status = "completed"]
  /\ last' = [Response("complete", g, 200, Snapshot(g)) EXCEPT !.stage = "completed"]
  /\ UNCHANGED << plans, messages, awaiting, turn >>

\* the fields TweakPlanRequest declares (schemas/chat.py)
TweakPlanRequestFields == { "tweak_message" }

\* tweak_plan's reconstruction of the final step list
tweak_merge(all_steps, modified_remaining_steps) ==
  Renumber(completed_steps(all_steps) \o
           [i \in 1..Len(modified_remaining_steps) |->
              [modified_remaining_steps[i] EXCEPT !.completed = FALSE]])

\* a tweak that, before it answers, sends the plan and the goal back to
\* pending_acceptance
TweakPlanDemoting(g) ==
  /\ turn.pc = "idle"
  /\ plans' = [i \in 1..Len(plans) |->
                 IF plans[i].goal_id = g
                 THEN [plans[i] EXCEPT !.status = "pending_acceptance"]
                 ELSE plans[i]]
  /\ goals' = [goals EXCEPT ![g].status = "pending_acceptance"]
  /\ last' = Response("tweak", g,
                      IF PlansOf(plans, g) = <<>> THEN 404 ELSE 500,
                      Snapshot(g))
  /\ UNCHANGED << messages, awaiting, turn >>

\* tweak_plan (api/routes/plan.py): reading request.remaining_steps raises
\* AttributeError for a field the request model does not declare, and the
\* handler turns every such exception into a 500
TweakPlan(g) ==
  /\ turn.pc = "idle"
  /\ IF PlansOf(plans, g) = <<>>
     THEN /\ last' = Response("tweak", g, 404, Snapshot(g))
          /\ UNCHANGED plans
     ELSE IF "remaining_steps" \notin TweakPlanRequestFields
     THEN /\ last' = Response("tweak", g, 500, Snapshot(g))
          /\ UNCHANGED plans
     ELSE \E producer \in ProducerOutcomes :
          IF producer.kind = "bad_element"
          THEN /\ last' = Response("tweak", g, 500, Snapshot(g))
               /\ UNCHANGED plans
          ELSE
          LET plan == Head(PlansOf(plans, g))
              modified_remaining_steps ==
                IF producer.kind = "ok" THEN producer.steps
                ELSE remaining_steps(plan.steps)
              final_steps ==
                tweak_merge(plan.steps, modified_remaining_steps)
              title == IF producer.kind = "ok" /\ producer.has_title
                       THEN TitleGenerated ELSE plan.title
          IN  /\ Len(final_steps) <= MaxSteps
              /\ plans' = UpdatePlans(plans, g, title, final_steps,
                                      Len(final_steps), plan.status)
              /\ last' = [Response("tweak", g, 200, Snapshot(g)) EXCEPT
                            !.plan_data =
                               [present |-> TRUE, title |-> title,
                                steps |-> final_steps,
                                total_steps |-> Len(final_steps),
                                status |-> plan.status,
                                note |-> [kind |-> IF producer.kind = "ok"
                                                   THEN "updated"
                                                   ELSE "could_not_apply",
                                          n |-> 0]],
                            !.producer_calls = 1]
  /\ UNCHANGED << goals, messages, awaiting, turn >>

\* a cursor that counts the completed steps
first_incomplete_count(steps) ==
  Cardinality({idx \in 1..Len(steps) : steps[idx].completed})

\* the cursor loop of update_step_completion
first_incomplete(steps) ==
  LET open == {idx \in 1..Len(steps) : ~steps[idx].completed}
  IN  IF open = {} THEN Len(steps)
      ELSE (CHOOSE idx \in open : \A j \in open : idx <= j) - 1

Min(a, b) == IF a <= b THEN a ELSE b

\* a lookup that falls back on the last step of the list
find_step_or_last(steps, step_id) ==
  LET hits == { i \in 1..Len(steps) : steps[i].id = step_id }
  IN  IF hits = {} THEN Len(steps)
      ELSE CHOOSE i \in hits : \A j \in hits : i <= j

\* the lookup loop of update_step_completion: the position of the first step
\* whose id is step_id, 0 when step_found stays False
find_step(steps, step_id) ==
  LET hits == { i \in 1..Len(steps) : steps[i].id = step_id }
  IN  IF hits = {} THEN 0
      ELSE CHOOSE i \in hits : \A j \in hits : i <= j

\* a toggle that gives the flag to every step up to the one found
set_completed_through(steps, hit, completed) ==
  [i \in 1..Len(steps) |->
     IF i <= hit THEN [steps[i] EXCEPT !.completed = completed]
     ELSE steps[i]]

\* step['completed'] = request.completed for the step the loop found
set_completed(steps, hit, completed) ==
  [steps EXCEPT ![hit].completed = completed]

\* the step ids a completion request is made for: every id a step of the
\* goal's plan carries, and two that may be carried by none
StepIdsFor(g) ==
  UNION { { plans[j].steps[i].id : i \in 1..Len(plans[j].steps) } :
          j \in { k \in 1..Len(plans) : plans[k].goal_id = g } }
    \cup { 0, MaxSteps + 1 }

\* update_step_completion (api/routes/plan.py)
UpdateStepCompletion(g) ==
  \E step_id \in StepIdsFor(g), completed \in BOOLEAN :
    /\ turn.pc = "idle"
    /\ \E rows \in { PlansOf(plans, g) } :
         IF rows = <<>>
         THEN /\ last' = Response("set_step", g, 404, Snapshot(g))
              /\ UNCHANGED << goals, plans, awaiting >>
         ELSE \E steps \in { Head(rows).steps } :
              \E hit \in { find_step(steps, step_id) } :
              IF hit = 0
              THEN /\ last' = Response("set_step", g, 404, Snapshot(g))
                   /\ UNCHANGED << goals, plans, awaiting >>
              ELSE
              \E new_steps \in
                   { set_completed(steps, hit, completed) } :
                /\ plans' = [i \in 1..Len(plans) |->
                               IF plans[i].goal_id = g
                               THEN [plans[i] EXCEPT !.steps = new_steps]
                               ELSE plans[i]]
                /\ goals' =
                     IF completed
                     THEN [goals EXCEPT ![g].current_step =
                             Min(first_incomplete(new_steps),
                                 Len(new_steps))]
                     ELSE goals
                /\ last' = [Response("set_step", g, 200, Snapshot(g)) EXCEPT
                              !.step_id = step_id,
                              !.completed = completed]
                /\ awaiting' = Overlapped(awaiting, g,
                                 [step |-> hit, completed |-> completed])
    /\ UNCHANGED << messages, turn >>

Next ==
  \/ GoalNotFound
  \/ \E g \in GoalIds : ChatLoad(g)
  \/ ChatAgentFails
  \/ ChatBegin
  \/ ChatTool
  \/ ChatEnd
  \/ \E g \in GoalIds : AcceptPlan(g)
  \/ \E g \in GoalIds : CompleteGoal(g)
  \/ \E g \in GoalIds : TweakPlan(g)
  \/ \E g \in GoalIds : UpdateStepCompletion(g)

\* the handlers run on one event loop: a handler runs to its end unless it
\* awaits, and only process_message awaits (the agent run)
Spec == Init /\ [][Next]_vars

\* the same handlers when an update of the goals table may raise after the
\* update of the plans table has been made
NextOrGoalUpdateFails ==
  \/ Next
  \/ ChatToolGoalUpdateFails
  \/ \E g \in GoalIds : AcceptPlanGoalUpdateFails(g)

SpecGoalUpdateFails == Init /\ [][NextOrGoalUpdateFails]_vars

\* the create_plan branch applied, on its own, to a stored plan and a tool
\* result whose steps are the plan's own steps
MergeTitles == { "Getting Started", "Generated step" }

MergeInputs ==
  { Renumber(steps) :
      steps \in SeqsUpTo([id : {0}, title : MergeTitles,
                          completed : BOOLEAN], MaxMergeLen) }

InitReconcile ==
  /\ goals = [g \in GoalIds |-> [status |-> "active", current_step |-> 0]]
  /\ \E steps \in MergeInputs :
       plans = << [goal_id |-> "g1", title |-> TitlePlan, steps |-> steps,
                   total_steps |-> Len(steps), status |-> "accepted"] >>
  /\ messages = <<>>
  /\ awaiting = EmptyBag
  /\ turn = Idle
  /\ last = Response("create_goal", "g1", 200, NoSnapshot)

ReconcileOwnSteps(g) ==
  /\ last.op = "create_goal"
  /\ \E st \in { handle_create_plan(
                    [plans |-> plans, goals |-> goals,
                     self_status |-> goals[g].status, flag |-> "CONVERSATION",
                     plan_data |-> NoPlanData, producer_calls |-> 0], g,
                    [title |-> TitleJourney,
                     steps |-> Head(PlansOf(plans, g)).steps,
                     total_steps |-> Head(PlansOf(plans, g)).total_steps,
                     status |-> "pending_acceptance"]) } :
       /\ plans' = st.plans
       /\ goals' = st.goals
       /\ last' = [Response("reconcile_own", g, 200, Snapshot(g)) EXCEPT
                     !.flag = st.flag, !.plan_data = st.plan_data]
  /\ UNCHANGED << messages, awaiting, turn >>

NextReconcile == \E g \in GoalIds : ReconcileOwnSteps(g)

SpecReconcile == InitReconcile /\ [][NextReconcile]_vars

\* the same handlers serving GoalIds while the tables also hold the rows of
\* another goal: its goal row, its plan and a message of its history
OtherGoal == "g2"

OtherGoalRow == [status |-> "active", current_step |-> 1]

OtherPlan ==
  [goal_id |-> OtherGoal, title |-> TitlePlan,
   steps |-> << [id |-> 1, title |-> "Getting Started", completed |-> TRUE],
                [id |-> 2, title |-> "Generated step",
                 completed |-> FALSE] >>,
   total_steps |-> 2, status |-> "accepted"]

OtherMessages ==
  << [goal_id |-> OtherGoal, role |-> "user", content |-> "user_input"] >>

InitTwoGoals ==
  /\ goals = [g \in GoalIds \cup {OtherGoal} |->
               IF g = OtherGoal THEN OtherGoalRow
               ELSE [status |-> "onboarding", current_step |-> 0]]
  /\ plans = << OtherPlan >>
  /\ messages = OtherMessages
  /\ awaiting = EmptyBag
  /\ turn = Idle
  /\ last = Response("create_goal", "g1", 200, NoSnapshot)

SpecTwoGoals == InitTwoGoals /\ [][Next]_vars

\* the modify_plan branch applied, on its own, to a stored plan and a skip
\* request, whatever the completion endpoint would answer if it were asked
SkipCalls ==
  [tool : {"modify_plan"}, user_data_ok : {TRUE},
   request : { r \in Requests : RequestTests[r].skip /\
                                 ~RequestTests[r].show_only },
   producer : ProducerOutcomes]

InitSkip ==
  /\ goals = [g \in GoalIds |-> [status |-> "active", current_step |-> 0]]
  /\ \E steps \in MergeInputs :
       plans = << [goal_id |-> "g1", title |-> TitlePlan, steps |-> steps,
                   total_steps |-> Len(steps), status |-> "accepted"] >>
  /\ messages = <<>>
  /\ awaiting = EmptyBag
  /\ turn = [Idle EXCEPT !.pc = "tools", !.goal = "g1",
                         !.self_status = "active", !.left = 1,
                         !.flag = "CONVERSATION"]
  /\ last = Response("chat_begin", "g1", 200, NoSnapshot)

ChatToolSkip == \E call \in SkipCalls : ChatToolWith(call)

NextSkip == ChatToolSkip \/ ChatEnd

SpecSkip == InitSkip /\ [][NextSkip]_vars

\* the modify_plan branch for a free-form request, with the call to the
\* completion endpoint as a step of its own: client.chat.completions.create
\* is called without a timeout and nothing in the handler can cancel it, so
\* the iteration goes on when, and only if, the endpoint answers or raises
FreeFormCalls ==
  [tool : {"modify_plan"}, user_data_ok : {TRUE},
   request : { r \in Requests : ~RequestTests[r].skip /\
                                 ~RequestTests[r].show_only },
   producer : {ProducerError}]

\* the iteration up to the call of the completion endpoint; a plan without
\* remaining steps is answered without the call
ProducerAsk ==
  \E call \in FreeFormCalls :
    /\ turn.pc = "tools"
    /\ turn.left > 0
    /\ IF remaining_steps(StepsOfTurn) = <<>>
       THEN ToolStep(call)
       ELSE /\ turn' = [turn EXCEPT !.pc = "producer"]
            /\ last' = [Response("producer_call", turn.goal, 200,
                                 Snapshot(turn.goal)) EXCEPT !.call = call]
            /\ UNCHANGED << goals, plans, messages, awaiting >>

\* the completion endpoint answers or raises, and the iteration runs to its
\* end
ProducerAnswers ==
  \E producer \in ProducerOutcomes :
    /\ turn.pc = "producer"
    /\ ToolStep([last.call EXCEPT !.producer = producer])

NextProducerWaits == ProducerAsk \/ ProducerAnswers \/ ChatEnd

\* the event loop runs the handler's own steps; nothing makes the endpoint
\* answer
SpecProducerWaits ==
  /\ InitSkip
  /\ [][NextProducerWaits]_vars
  /\ WF_vars(ProducerAsk \/ ChatEnd)

\* ------------------------------------------------------------------------
\* The in-memory server (src/python-server): PLANS_STORAGE is kept in
\* `plans`, a plan's id being its position; SESSIONS_STORAGE in `goals`; the
\* session's chat_history in `messages`
\* ------------------------------------------------------------------------
SessionIds == { "s1" }

\* self.plan_id = None
NoPlanId == 0

\* an error dictionary a tool returns
ToolError == [error |-> "text"]

\* PlanService.create_plan of the in-memory server
in_memory_create_plan(plan_id) ==
  [plan_id |-> plan_id, title |-> TitleJourney, steps |-> base_steps,
   total_steps |-> Len(base_steps), current_step |-> 0, note |-> NoNote]

\* a skip that removes the first skip_count steps
in_memory_skip_from_start(steps, current_step, count) ==
  SubSeq(steps, Min(count, Len(steps)) + 1, Len(steps))

\* steps[:current_step + 1] + steps[current_step + 1 + skip_count:]
in_memory_skip(steps, current_step, count) ==
  SubSeq(steps, 1, Min(current_step + 1, Len(steps))) \o
  SubSeq(steps, current_step + 2 + count, Len(steps))

\* PlanService.modify_plan of the in-memory server
in_memory_modify_plan(modification_request, current_plan) ==
  IF RequestTests[modification_request].skip
  THEN LET count == RequestTests[modification_request].count
           new_steps == in_memory_skip(current_plan.steps,
                                       current_plan.current_step, count)
       IN  [current_plan EXCEPT
              !.steps = new_steps, !.total_steps = Len(new_steps),
              !.note = [kind |-> "skipped", n |-> count]]
  ELSE current_plan

NoToolCall == [tool |-> "", plan_id |-> NoPlanId, request |-> <<>>]

\* what the session and the storage hold
NoInMemorySnapshot ==
  [storage |-> <<>>, plan_id |-> NoPlanId, stage |-> "onboarding"]

\* the turn being handled, and what the session and the storage held when
\* it started
InMemoryIdle ==
  [pc |-> "idle", session |-> "", output |-> <<>>, left |-> 0,
   intermediate_steps |-> <<>>, before |-> NoInMemorySnapshot]

InMemorySnapshot(session) ==
  [storage |-> plans, plan_id |-> goals[session].plan_id,
   stage |-> goals[session].stage]

InMemoryResponse(op, session, before) ==
  [op |-> op, session |-> session, call |-> NoToolCall,
   tool_output |-> ToolError, flag |-> "", stage |-> "",
   intermediate_steps |-> <<>>, output |-> <<>>, before |-> before]

\* create_session (main.py): a session starts in onboarding without a plan
InitInMemory ==
  /\ goals = [session \in SessionIds |->
               [stage |-> "onboarding", plan_id |-> NoPlanId]]
  /\ plans = <<>>
  /\ messages = <<>>
  /\ awaiting = EmptyBag
  /\ turn = InMemoryIdle
  /\ last = InMemoryResponse("create_session", "s1", NoInMemorySnapshot)

\* process_message of the in-memory server up to the agent run, which will
\* call `n` tools and reply `output`
InMemoryProcessMessage(session) ==
  \E n \in 0..MaxToolCalls, output \in Replies :
    /\ turn.pc = "idle"
    /\ Len(messages) < 2 * MaxTurns
    /\ turn' = [InMemoryIdle EXCEPT !.pc = "agent", !.session = session,
                                    !.output = output, !.left = n,
                                    !.before = InMemorySnapshot(session)]
    /\ last' = InMemoryResponse("process_message", session,
                                InMemorySnapshot(session))
    /\ UNCHANGED << goals, plans, messages, awaiting >>

\* the create_plan tool (agents/tools.py of the in-memory server), run by
\* the agent: json.loads(user_data) raises, or the plan is stored
InMemoryCreatePlan ==
  \E user_data_ok \in BOOLEAN :
    /\ turn.pc = "agent"
    /\ turn.left > 0
    /\ Len(plans) < MaxPlans
    /\ \E tool_output \in { IF user_data_ok
                             THEN in_memory_create_plan(Len(plans) + 1)
                             ELSE ToolError } :
         /\ plans' = IF user_data_ok THEN Append(plans, tool_output)
                     ELSE plans
         /\ turn' = [turn EXCEPT
                        !.left = @ - 1,
                        !.intermediate_steps =
                           Append(@, [tool |-> "create_plan",
                                      tool_output |-> tool_output])]
         /\ last' = [InMemoryResponse("create_plan", turn.session,
                                      InMemorySnapshot(turn.session)) EXCEPT
                       !.call = [NoToolCall EXCEPT !.tool = "create_plan"],
                       !.tool_output = tool_output]
    /\ UNCHANGED << goals, messages, awaiting >>

\* the modify_plan tool, run by the agent with the plan id and the request
\* the agent passes
InMemoryModifyPlan ==
  \E plan_id \in 1..(MaxPlans + 1), request \in Requests :
    /\ turn.pc = "agent"
    /\ turn.left > 0
    /\ \E tool_output \in { IF plan_id \notin 1..Len(plans)
                             THEN ToolError
                             ELSE in_memory_modify_plan(request,
                                                        plans[plan_id]) } :
         /\ plans' = IF plan_id \notin 1..Len(plans) THEN plans
                     ELSE [plans EXCEPT ![plan_id] = tool_output]
         /\ turn' = [turn EXCEPT
                        !.left = @ - 1,
                        !.intermediate_steps =
                           Append(@, [tool |-> "modify_plan",
                                      tool_output |-> tool_output])]
         /\ last' = [InMemoryResponse("modify_plan", turn.session,
                                      InMemorySnapshot(turn.session)) EXCEPT
                       !.call = [tool |-> "modify_plan",
                                 plan_id |-> plan_id, request |-> request],
                       !.tool_output = tool_output]
    /\ UNCHANGED << goals, messages, awaiting >>

\* the loop of CoachingSession._parse_response over the intermediate steps:
\* the flag, the session's plan_id and the session's stage it leaves
RECURSIVE in_memory_parse(_, _)
in_memory_parse(st, intermediate_steps) ==
  IF intermediate_steps = <<>> THEN st
  ELSE LET step == Head(intermediate_steps)
       IN  in_memory_parse(
             [flag |-> "PLAN_SCREEN",
              plan_data |-> step.tool_output,
              plan_id |-> Get(step.tool_output, "plan_id", NoPlanId),
              stage |-> IF step.tool = "create_plan" THEN "plan_active"
                        ELSE st.stage],
             Tail(intermediate_steps))

\* process_message after the agent run: the history grows by the two
\* messages and _parse_response answers
InMemoryParseResponse ==
  /\ turn.pc = "agent"
  /\ turn.left = 0
  /\ LET session == goals[turn.session]
         st == in_memory_parse([flag |-> "CONVERSATION",
                                plan_data |-> ToolError,
                                plan_id |-> session.plan_id,
                                stage |-> session.stage],
                               turn.intermediate_steps)
         stage == IF st.stage = "onboarding" /\ AsksToFinalize[turn.output]
                  THEN "confirming" ELSE st.stage
     IN  /\ goals' = [goals EXCEPT ![turn.session] =
                        [stage |-> stage, plan_id |-> st.plan_id]]
         /\ last' = [InMemoryResponse("chat", turn.session, turn.before)
                       EXCEPT !.flag = st.flag, !.stage = stage,
                              !.tool_output = st.plan_data,
                              !.intermediate_steps =
                                 turn.intermediate_steps,
                              !.output = turn.output]
  /\ messages' = messages \o
       << [role |-> "user", content |-> "user_input"],
          [role |-> "assistant", content |-> "output"] >>
  /\ turn' = InMemoryIdle
  /\ UNCHANGED << plans, awaiting >>

NextInMemory ==
  \/ \E session \in SessionIds : InMemoryProcessMessage(session)
  \/ InMemoryCreatePlan
  \/ InMemoryModifyPlan
  \/ InMemoryParseResponse

SpecInMemory == InitInMemory /\ [][NextInMemory]_vars

TypeOK ==
  /\ \A g \in GoalIds : goals[g].status \in Stages
  /\ \A i \in 1..Len(plans) : Len(plans[i].steps) <= MaxSteps

\* ------------------------------------------------------------------------
\* Properties
\* ------------------------------------------------------------------------
\* the step list stored for goal g (no plan: the empty list)
StoredSteps(g) ==
  IF PlansOf(plans, g) = <<>> THEN <<>> ELSE Head(PlansOf(plans, g)).steps

\* the step list goal last.goal had when the last request started
StepsBefore ==
  IF last.before.rows = <<>> THEN <<>> ELSE Head(last.before.rows).steps

\* the steps of a list whose completed flag is `flag`, in list order
Flagged(steps, flag) == SelectSeq(steps, LAMBDA x : x.completed = flag)

TitlesOf(steps) == [i \in 1..Len(steps) |-> steps[i].title]

\* a list that has a completed step behind an incomplete one
DoneBehindOpen(steps) ==
  \E i, j \in 1..Len(steps) :
    i < j /\ ~steps[i].completed /\ steps[j].completed

\* the last request was a create_plan tool result handled for a goal that
\* had a plan
CreateOnPlan ==
  /\ last.op = "create_plan"
  /\ last.before.rows # <<>>

\* the last request was a modify_plan handled for a goal that had a plan,
\* and the request was not show-only
ModifyOnPlan ==
  /\ last.op = "modify_plan"
  /\ last.before.rows # <<>>
  /\ ~RequestTests[last.call.request].show_only

SkipOnPlan == ModifyOnPlan /\ RequestTests[last.call.request].skip

\* a free-form modify_plan that reached the generative producer
FreeFormOnPlan ==
  /\ ModifyOnPlan
  /\ ~RequestTests[last.call.request].skip
  /\ Flagged(StepsBefore, FALSE) # <<>>

\* C1: a create_plan result with candidate steps C committed for a goal that
\* already has plan P stores P's completed steps, in their order, with ids
\* 1..k, then the steps of C in order, each stored incomplete, with ids
\* k+1..k+|C|.
C1_CreateMergeKeepsCompletedThenCandidate ==
  CreateOnPlan =>
    LET done == Flagged(StepsBefore, TRUE)
        k == Len(done)
        C == Get(create_plan(last.call.user_data_ok), "steps", <<>>)
        Q == StoredSteps(last.goal)
    IN  /\ Len(Q) = k + Len(C)
        /\ \A i \in 1..Len(Q) : Q[i].id = i
        /\ \A i \in 1..k : Q[i].title = done[i].title /\ Q[i].completed
        /\ \A j \in 1..Len(C) :
             Q[k + j].title = C[j].title /\ ~Q[k + j].completed

\* a candidate was merged into a plan whose completed step was not at the
\* front
C1_Witness ==
  /\ CreateOnPlan
  /\ last.call.user_data_ok
  /\ DoneBehindOpen(StepsBefore)
  /\ Len(StoredSteps(last.goal)) > Len(Flagged(StepsBefore, TRUE))

\* C2: no request other than setStepCompletion loses, reorders or reopens a
\* completed step: the completed steps the goal had before the request are,
\* in the same order, the first completed steps of the stored list after it.
C2_CompletedStepsSurvive ==
  (last.goal \in GoalIds /\ last.op # "set_step") =>
    LET was == TitlesOf(Flagged(StepsBefore, TRUE))
        now == TitlesOf(Flagged(StoredSteps(last.goal), TRUE))
    IN  /\ Len(was) <= Len(now)
        /\ SubSeq(now, 1, Len(was)) = was

\* a skip or a free-form modification rewrote a list that had a completed
\* step behind an incomplete one
C2_Witness ==
  /\ ModifyOnPlan
  /\ DoneBehindOpen(StepsBefore)
  /\ StoredSteps(last.goal) # StepsBefore
  /\ last.plan_data.note.kind \in {"skipped", "updated"}

\* C3: the ids of the stored steps of every plan are 1..len(steps) in list
\* order.
C3_IdsAreOneToLen ==
  \A g \in GoalIds :
    \A i \in 1..Len(StoredSteps(g)) : StoredSteps(g)[i].id = i

\* C4: every step taken from the generative producer's output is stored
\* incomplete, whatever flag the producer gave it: after a merge the steps
\* behind the kept completed ones are all incomplete.
C4_ProducerStepsStoredIncomplete ==
  ( \/ FreeFormOnPlan /\ last.call.producer.kind = "ok"
    \/ last.op = "tweak" /\ last.rc = 200 ) =>
    LET k == Len(Flagged(StepsBefore, TRUE))
        Q == StoredSteps(last.goal)
    IN  \A i \in (k + 1)..Len(Q) : ~Q[i].completed

\* C5: when the generative producer fails during a free-form modify_plan the
\* stored steps are the steps before the call, the returned plan carries a
\* note, and the goal stage and the plan status are what they were.
C5_ProducerFailureChangesNothing ==
  (FreeFormOnPlan /\ last.call.producer.kind # "ok") =>
    /\ StoredSteps(last.goal) = StepsBefore
    /\ last.plan_data.present
    /\ last.plan_data.note.kind # "none"
    /\ goals[last.goal].status = last.before.status
    /\ Head(PlansOf(plans, last.goal)).status = Head(last.before.rows).status

\* C6: a create_plan tool output that is an error object, handled for a goal
\* that has a plan, leaves the stored plan exactly as it was.
C6_ToolErrorLeavesPlan ==
  (CreateOnPlan /\ ~last.call.user_data_ok) =>
    PlansOf(plans, last.goal) = last.before.rows

\* a step without its id
BodiesOf(steps) ==
  [i \in 1..Len(steps) |->
     [title |-> steps[i].title, completed |-> steps[i].completed]]

\* Q is completed(S) followed by remaining(S) without its first
\* min(n, |remaining(S)|) entries, with ids 1..len
IsSkipResult(S, n, Q) ==
  LET done == Flagged(S, TRUE)
      open == Flagged(S, FALSE)
      m == IF n <= Len(open) THEN n ELSE Len(open)
  IN  /\ BodiesOf(Q) = BodiesOf(done \o SubSeq(open, m + 1, Len(open)))
      /\ \A i \in 1..Len(Q) : Q[i].id = i

\* C7, as stated: a skip with count N applied to steps S stores completed(S)
\* followed by remaining(S) without its first min(N, |remaining(S)|)
\* entries, renumbered 1..len.
C7_SkipAsStated ==
  SkipOnPlan =>
    IsSkipResult(StepsBefore, last.plan_data.note.n,
                 StoredSteps(last.goal))

\* C7, amended: a skip with count N >= 1 stores completed(S) followed by
\* remaining(S) without its first min(N, |remaining(S)|) entries, renumbered
\* 1..len; a skip with count 0 stores the steps of S in their own order with
\* no step removed and no flag changed, renumbered 1..len.
C7_SkipRemovesEarliestRemaining ==
  SkipOnPlan =>
    LET S == StepsBefore
        n == last.plan_data.note.n
        Q == StoredSteps(last.goal)
    IN  IF n >= 1
        THEN IsSkipResult(S, n, Q)
        ELSE /\ BodiesOf(Q) = BodiesOf(S)
             /\ \A i \in 1..Len(Q) : Q[i].id = i

\* a skip with a count of at least 1 acted on a list that had a completed
\* step behind an incomplete one, and left a step
C7_Witness ==
  /\ SkipOnPlan
  /\ last.plan_data.note.n >= 1
  /\ DoneBehindOpen(StepsBefore)
  /\ StoredSteps(last.goal) # <<>>

DecimalDigits == {"0", "1", "2", "3", "4", "5", "6", "7", "8", "9"}

CharValue ==
  "0" :> 0 @@ "1" :> 1 @@ "2" :> 2 @@ "3" :> 3 @@ "4" :> 4 @@
  "5" :> 5 @@ "6" :> 6 @@ "7" :> 7 @@ "8" :> 8 @@ "9" :> 9

\* the number a run of decimal digits writes
RECURSIVE DecimalValue(_)
DecimalValue(ds) ==
  IF ds = <<>> THEN 0
  ELSE CharValue[ds[Len(ds)]] + 10 * DecimalValue(SubSeq(ds, 1, Len(ds) - 1))

\* C8: the count of a skip is the first integer literal of the request text
\* (the digits from the first digit up to the next character that is not
\* one); a text without digits counts 1, and then exactly one remaining step
\* is removed if any remains.
C8_SkipCountIsFirstInteger ==
  SkipOnPlan =>
    LET r == last.call.request
        n == last.plan_data.note.n
        at == {i \in 1..Len(r) : r[i] \in DecimalDigits}
        before == Len(Flagged(StepsBefore, FALSE))
        after == Len(Flagged(StoredSteps(last.goal), FALSE))
    IN  IF at = {}
        THEN /\ n = 1
             /\ after = (IF before = 0 THEN 0 ELSE before - 1)
        ELSE \E lo \in at, hi \in at :
               /\ \A i \in at : lo <= i
               /\ \A i \in lo..hi : i \in at
               /\ (hi + 1) \notin at
               /\ n = DecimalValue(SubSeq(r, lo, hi))

\* a skip request without digits acted on a list with two remaining steps
C8_Witness ==
  /\ SkipOnPlan
  /\ \A i \in 1..Len(last.call.request) :
       last.call.request[i] \notin DecimalDigits
  /\ Len(Flagged(StepsBefore, FALSE)) >= 2

\* C9: after setStepCompletion(goal, k, true) succeeds the goal's cursor is
\* the 0-based index of the first incomplete step of the updated list, or
\* the length of the list when every step is completed.
C9_CursorIsFirstIncomplete ==
  (last.op = "set_step" /\ last.rc = 200 /\ last.completed) =>
    LET Q == StoredSteps(last.goal)
        cursor == goals[last.goal].current_step
    IN  IF \A i \in 1..Len(Q) : Q[i].completed
        THEN cursor = Len(Q)
        ELSE /\ cursor + 1 \in 1..Len(Q)
             /\ ~Q[cursor + 1].completed
             /\ \A j \in 1..cursor : Q[j].completed

\* a step was completed and the cursor came to rest inside the list, behind
\* a completed step
C9_Witness ==
  /\ last.op = "set_step" /\ last.rc = 200 /\ last.completed
  /\ goals[last.goal].current_step > 0
  /\ goals[last.goal].current_step < Len(StoredSteps(last.goal))

\* C10: once a goal's stage is completed no request changes it.
C10_CompletedIsTerminal ==
  (last.goal \in GoalIds /\ last.before.status = "completed") =>
    goals[last.goal].status = "completed"

\* the last response ends a chat turn whose intermediate steps held a
\* create_plan result that carries steps
TurnCreatedPlan ==
  /\ last.op = "chat"
  /\ last.rc = 200
  /\ last.created

\* C11: at the end of a chat turn in which a create_plan result produced or
\* updated the goal's plan, the persisted goal stage is pending_acceptance,
\* whatever the reply of the turn says.
C11_CreateTurnEndsPendingAcceptance ==
  TurnCreatedPlan => goals[last.goal].status = "pending_acceptance"

\* C12: the stage a chat turn returns is the goal stage persisted when the
\* turn ends.
C12_ReturnedStageIsPersistedStage ==
  (last.op = "chat" /\ last.rc = 200) =>
    last.stage = goals[last.goal].status

\* the plan status stored for the goal of the last request, before and after
PlanStatusOf(rows) == IF rows = <<>> THEN "" ELSE Head(rows).status

\* C13: the goal stage becomes active only through acceptPlan executed in
\* stage pending_acceptance; acceptPlan in any other stage leaves the goal
\* stage and the plan status as they were.
C13_ActiveOnlyByAcceptWhenPending ==
  /\ ( /\ last.goal \in GoalIds
       /\ goals[last.goal].status = "active"
       /\ last.before.status # "active" ) =>
       (last.op = "accept" /\ last.before.status = "pending_acceptance")
  /\ (last.op = "accept" /\ last.before.status # "pending_acceptance") =>
       /\ goals[last.goal].status = last.before.status
       /\ PlanStatusOf(PlansOf(plans, last.goal)) =
            PlanStatusOf(last.before.rows)

\* C14: the goal stage becomes completed only through completeGoal executed
\* in stage active; completeGoal in onboarding, confirming or
\* pending_acceptance leaves the stage as it was.
C14_CompletedOnlyByCompleteWhenActive ==
  /\ ( /\ last.goal \in GoalIds
       /\ goals[last.goal].status = "completed"
       /\ last.before.status # "completed" ) =>
       (last.op = "complete" /\ last.before.status = "active")
  /\ ( /\ last.op = "complete"
       /\ last.before.status \in
            {"onboarding", "confirming", "pending_acceptance"} ) =>
       goals[last.goal].status = last.before.status

\* the requests that are empty once stripped or that hold a show-the-plan
\* phrase
ShowRequests == { ReqBlank, ReqShow }

\* C15: a modify_plan invocation whose request is empty or holds a
\* show-the-plan phrase makes no call to the generative producer and leaves
\* the plan row (steps, title, status), the goal stage and the cursor as
\* they were; when the goal has a plan the result is that plan, with no note.
C15_ShowOnlyChangesNothing ==
  (last.op = "modify_plan" /\ last.call.request \in ShowRequests) =>
    /\ last.producer_calls = last.before.producer_calls
    /\ PlansOf(plans, last.goal) = last.before.rows
    /\ goals[last.goal].status = last.before.status
    /\ goals[last.goal].current_step = last.before.current_step
    /\ last.before.rows # <<>> =>
         last.plan_data = PlanView(Head(last.before.rows), NoNote)

\* a blank request was handled for an active goal whose accepted plan has a
\* completed step and a remaining one
C15_Witness ==
  /\ last.op = "modify_plan"
  /\ last.call.request = ReqBlank
  /\ last.before.status = "active"
  /\ Flagged(StepsBefore, TRUE) # <<>>
  /\ Flagged(StepsBefore, FALSE) # <<>>
  /\ last.plan_data.present

\* C16: a modify_plan invocation on a goal that has no plan creates no
\* plan, leaves the goal stage as it was, raises no error, and yields a
\* result that tells the caller of the rejection: the flag or the plan data
\* of the turn differ from those of a turn that made no invocation.
C16_ModifyWithoutPlanIsRejectedVisibly ==
  (last.op = "modify_plan" /\ last.before.rows = <<>>) =>
    /\ PlansOf(plans, last.goal) = <<>>
    /\ goals[last.goal].status = last.before.status
    /\ last.rc = 200
    /\ (last.flag # "CONVERSATION" \/ last.plan_data # NoPlanData)

\* C17: every goal has at most one plan row, also after two chat turns that
\* were both loaded while the goal had no plan have each handled a
\* create_plan result.
C17_AtMostOnePlanPerGoal ==
  \A g \in GoalIds : Len(PlansOf(plans, g)) <= 1

\* a create_plan result was handled by a turn that loaded the goal in
\* onboarding, before any plan existed, after another turn had stored a plan
C17_Witness ==
  /\ last.op = "create_plan"
  /\ last.stage = "onboarding"
  /\ last.before.rows # <<>>
  /\ Len(PlansOf(plans, last.goal)) = 1

\* the first tool result of a chat turn was handled after a step completion
\* was set for the same goal while the turn's agent run was awaited
ToolAfterOverlappingToggle ==
  /\ last.op \in {"create_plan", "modify_plan"}
  /\ last.tools = 1
  /\ turn.overlap # NoToggle

\* C18: when a setStepCompletion runs for a goal while a chat turn of the
\* same goal is suspended, the create_plan or modify_plan of that turn works
\* on the step list the toggle stored (the toggle is not lost), and every
\* step completed in that list, the toggled one included, is kept completed,
\* in order, in the list the turn stores.
C18_OverlappingToggleSurvives ==
  ToolAfterOverlappingToggle =>
    LET S == StepsBefore
        t == turn.overlap
        was == TitlesOf(Flagged(S, TRUE))
        now == TitlesOf(Flagged(StoredSteps(last.goal), TRUE))
        k == Cardinality({i \in 1..t.step : S[i].completed})
    IN  /\ t.step \in 1..Len(S)
        /\ S[t.step].completed = t.completed
        /\ Len(was) <= Len(now)
        /\ SubSeq(now, 1, Len(was)) = was
        /\ t.completed => (k <= Len(now) /\ now[k] = S[t.step].title)

\* a step behind an incomplete one was set completed while a turn was
\* suspended, and the turn then replaced the remaining steps
C18_Witness ==
  /\ ToolAfterOverlappingToggle
  /\ turn.overlap.completed
  /\ turn.overlap.step > 1
  /\ ~StepsBefore[1].completed
  /\ StoredSteps(last.goal) # StepsBefore

\* C19: the plan update and the goal-stage update of a create_plan, a
\* mutating modify_plan or an acceptPlan take effect as a unit: in no state,
\* whether the operation answered or failed, has it changed the plan row
\* without the goal stage being the one the operation sets.
C19_PlanAndStageWrittenTogether ==
  ( /\ last.op \in {"create_plan", "modify_plan", "tool_failed",
                    "accept", "accept_failed"}
    /\ PlansOf(plans, last.goal) # last.before.rows ) =>
    goals[last.goal].status =
      IF last.op \in {"accept", "accept_failed"}
      THEN "active" ELSE "pending_acceptance"

\* C20: a setStepCompletion whose step id matches no step of the goal's
\* plan, or whose goal has no plan, is answered not-found and leaves the plan
\* rows, the cursor and the stage as they were: a request answered 200 named
\* the id of a stored step.  A request for a goal that does not exist is
\* answered not-found and no row is held for it.
C20_StepMissIsNotFound ==
  /\ (last.op = "set_step" /\ last.rc = 404) =>
       /\ PlansOf(plans, last.goal) = last.before.rows
       /\ goals[last.goal].current_step = last.before.current_step
       /\ goals[last.goal].status = last.before.status
  /\ (last.op = "set_step" /\ last.rc = 200) =>
       \E i \in 1..Len(StepsBefore) : StepsBefore[i].id = last.step_id
  /\ last.op = "set_step" => last.rc \in {200, 404}
  /\ last.goal = MissingGoal => last.rc = 404
  /\ PlansOf(plans, MissingGoal) = <<>>

\* a setStepCompletion was answered not-found for a goal whose plan has a
\* completed first step and a remaining one
C20_Witness ==
  /\ last.op = "set_step"
  /\ last.rc = 404
  /\ last.before.current_step > 0
  /\ Flagged(StepsBefore, FALSE) # <<>>
  /\ goals[last.goal].current_step = last.before.current_step

\* total_steps of the first plan row of a list of rows (no row: 0)
TotalStepsOf(rows) == IF rows = <<>> THEN 0 ELSE Head(rows).total_steps

\* C21: acceptPlan and completeGoal leave the plan's step list (ids, order,
\* titles, completed flags), its total_steps and the goal's cursor as they
\* were.
C21_AcceptAndCompleteKeepSteps ==
  last.op \in {"accept", "complete"} =>
    /\ StoredSteps(last.goal) = StepsBefore
    /\ TotalStepsOf(PlansOf(plans, last.goal)) =
         TotalStepsOf(last.before.rows)
    /\ goals[last.goal].current_step = last.before.current_step

\* a plan with a completed step and a cursor past 0 was accepted
C21_Witness ==
  /\ last.op = "accept"
  /\ last.rc = 200
  /\ last.before.current_step > 0
  /\ Flagged(StepsBefore, TRUE) # <<>>
  /\ Head(PlansOf(plans, last.goal)).status = "accepted"

\* the create_plan merge has been applied to a plan and its own steps
ReconciledOwn == last.op = "reconcile_own"

C23_CursorWithinSteps ==
  \A g \in GoalIds :
    PlansOf(plans, g) # <<>> =>
      /\ 0 <= goals[g].current_step
      /\ goals[g].current_step <= Len(StoredSteps(g))

\* the index of the first incomplete step of a list, its length if none
CursorFor(steps) == Min(first_incomplete(steps), Len(steps))

\* C26: after a setStepCompletion that set a step incomplete has succeeded,
\* the stored cursor is the index of the first incomplete step of the
\* updated list.
C26_UncompleteRecomputesCursor ==
  (last.op = "set_step" /\ last.rc = 200 /\ ~last.completed) =>
    goals[last.goal].current_step = CursorFor(StoredSteps(last.goal))

\* C27: after a create_plan merge, a modify_plan (skip or free-form) or a
\* tweak has rewritten the step list, the stored cursor is the index of the
\* first incomplete step of the new list, or its length if there is none.
C27_RewriteRecomputesCursor ==
  ( /\ \/ CreateOnPlan
       \/ ModifyOnPlan
       \/ last.op = "tweak" /\ last.rc = 200
    /\ StoredSteps(last.goal) # StepsBefore ) =>
    goals[last.goal].current_step = CursorFor(StoredSteps(last.goal))

\* C24: a tweak of a goal that has a plan is answered with a plan, never
\* with an error; when the generative producer failed the stored steps are
\* the steps before the request and the plan carries a note.
C24_TweakAlwaysAnswersPlan ==
  (last.op = "tweak" /\ last.before.rows # <<>>) =>
    /\ last.rc = 200
    /\ last.plan_data.present
    /\ last.plan_data.note.kind # "none"
    /\ last.plan_data.note.kind = "could_not_apply" =>
         StoredSteps(last.goal) = StepsBefore

\* C25: a skip request on a plan whose steps are all completed stores and
\* returns the step list as it was (steps, order, ids, flags), with a note
\* that does not report any step as skipped.
C25_SkipOnCompletedPlanSaysNothingSkipped ==
  (SkipOnPlan /\ StepsBefore # <<>> /\ Flagged(StepsBefore, FALSE) = <<>>) =>
    /\ StoredSteps(last.goal) = StepsBefore
    /\ last.plan_data.steps = StepsBefore
    /\ last.plan_data.note.kind # "none"
    /\ last.plan_data.note.kind = "skipped" => last.plan_data.note.n = 0

\* C28: the stage confirming is entered only from onboarding: no request
\* writes confirming over a persisted stage of pending_acceptance, active or
\* completed.
C28_ConfirmingOnlyFromOnboarding ==
  ( /\ last.goal \in GoalIds
    /\ goals[last.goal].status = "confirming"
    /\ last.before.status # "confirming" ) =>
    last.before.status = "onboarding"

\* C29: a setStepCompletion(goal, k, v) that succeeds gives v to the flag
\* of one step whose id is k and changes nothing else: every other step's
\* flag, all ids, titles and the order of the list, the plan's title,
\* total_steps and status, and the goal stage are as they were.
C29_ToggleChangesOneFlag ==
  (last.op = "set_step" /\ last.rc = 200) =>
    LET S == StepsBefore
        Q == StoredSteps(last.goal)
    IN  /\ \E i \in 1..Len(S) :
             /\ S[i].id = last.step_id
             /\ Q = [S EXCEPT ![i].completed = last.completed]
        /\ Len(PlansOf(plans, last.goal)) = Len(last.before.rows)
        /\ [Head(PlansOf(plans, last.goal)) EXCEPT !.steps = S] =
             Head(last.before.rows)
        /\ goals[last.goal].status = last.before.status

\* the second of at least three steps was set completed while the first
\* and the third were incomplete
C29_Witness ==
  /\ last.op = "set_step"
  /\ last.rc = 200
  /\ last.completed
  /\ last.step_id = 2
  /\ Len(StepsBefore) >= 3
  /\ ~StepsBefore[1].completed
  /\ ~StepsBefore[2].completed
  /\ ~StepsBefore[3].completed
  /\ StoredSteps(last.goal)[2].completed

\* C30: whatever requests are served for a goal, the stage, the cursor, the
\* plan and the chat history of another goal stay as they were.
C30_OtherGoalUntouched ==
  /\ goals[OtherGoal] = OtherGoalRow
  /\ PlansOf(plans, OtherGoal) = << OtherPlan >>
  /\ SelectSeq(messages, LAMBDA row : row.goal_id = OtherGoal) =
       OtherMessages

\* a free-form modification rewrote the plan of a goal, after a chat turn
\* saved its messages, while the tables held the other goal's rows
C30_Witness ==
  /\ FreeFormOnPlan
  /\ last.call.producer.kind = "ok"
  /\ StoredSteps(last.goal) # StepsBefore
  /\ Len(plans) = 2
  /\ Len(messages) > Len(OtherMessages)
  /\ goals[last.goal].status # last.before.status

\* the count a skip request writes: its first run of decimal digits, 1 when
\* it has none
WrittenCount(r) ==
  LET at == {i \in 1..Len(r) : r[i] \in DecimalDigits}
  IN  IF at = {} THEN 1
      ELSE LET lo == CHOOSE i \in at : \A j \in at : i <= j
               hi == CHOOSE i \in at :
                       /\ \A j \in lo..i : j \in at
                       /\ (i + 1) \notin at
           IN  DecimalValue(SubSeq(r, lo, hi))

\* the list a skip request r makes of the steps S, given by S and r alone
SkipOutcome(S, r) ==
  LET n == WrittenCount(r)
      done == Flagged(S, TRUE)
      open == Flagged(S, FALSE)
      kept == IF open # <<>> /\ n > 0
              THEN done \o SubSeq(open, Min(n, Len(open)) + 1, Len(open))
              ELSE S
  IN  [i \in 1..Len(kept) |-> [kept[i] EXCEPT !.id = i]]

\* C31: a modify_plan request handled as a skip makes no call to the
\* generative producer, and the step list it stores is determined by the
\* existing steps and the request text alone, whatever the producer would
\* have answered.
C31_SkipNeverAsksProducer ==
  SkipOnPlan =>
    /\ last.producer_calls = last.before.producer_calls
    /\ last.plan_data.note.kind \notin {"updated", "could_not_apply"}
    /\ StoredSteps(last.goal) = SkipOutcome(StepsBefore, last.call.request)

\* a skip removed a step of a list that had a completed step behind an
\* incomplete one, while the producer had steps of its own to offer
C31_Witness ==
  /\ SkipOnPlan
  /\ last.call.producer.kind = "ok"
  /\ last.call.producer.steps # <<>>
  /\ DoneBehindOpen(StepsBefore)
  /\ Len(StoredSteps(last.goal)) < Len(StepsBefore)

\* C32: the history of a goal is a run of turns, each a user message with
\* its assistant reply right behind it.  The request in which a chat turn
\* comes back from its agent run leaves the history as it was with that
\* turn's two messages appended; every other request, a chat turn whose
\* agent run failed among them, leaves the history as it was.
C32_HistoryGrowsByWholeTurns ==
  /\ \A g \in GoalIds :
       LET history == HistoryOf(messages, g)
       IN  /\ Len(history) % 2 = 0
           /\ \A i \in 1..Len(history) :
                history[i].role = (IF i % 2 = 1 THEN "user" ELSE "assistant")
  /\ last.goal \in GoalIds =>
       LET old == last.before.history
           new == HistoryOf(messages, last.goal)
       IN  IF last.op = "chat_begin"
           THEN new = old \o
                  << [goal_id |-> last.goal, role |-> "user",
                      content |-> "user_input"],
                     [goal_id |-> last.goal, role |-> "assistant",
                      content |-> "output"] >>
           ELSE new = old

\* a turn has saved its two messages while another turn of the same goal,
\* loaded before that save, is still at its agent run
C32_Witness ==
  /\ last.op = "chat_begin"
  /\ \E agent \in BagToSet(awaiting) : agent.goal = last.goal
  /\ Len(HistoryOf(messages, last.goal)) = 2

InMemorySkip ==
  /\ last.op = "modify_plan"
  /\ last.call.plan_id \in 1..Len(last.before.storage)
  /\ RequestTests[last.call.request].skip

\* what the skip of the in-memory server does to the steps S of a plan whose
\* cursor is c when the request writes the count N
InMemorySkipKeeps(S, c, N, Q) ==
  LET m == Min(N, Len(S) - c - 1)
  IN  /\ Len(Q) = Len(S) - m
      /\ \A i \in 1..(c + 1) : Q[i] = S[i]
      /\ \A i \in (c + 2)..Len(Q) : Q[i] = S[i + m]

\* the steps the Supabase server's skip keeps of S for the request r
SupabaseSkipKeeps(S, r) ==
  BodiesOf(modify_plan_with_agent(r, [title |-> TitlePlan, steps |-> S,
                                      total_steps |-> Len(S)],
                                  ProducerError).steps)

\* C34, as stated: in the in-memory server a skip with count N keeps every
\* step at list index <= current_step, removes the next
\* min(N, len(steps) - current_step - 1) steps, keeps the rest in order and
\* sets total_steps to the new length; on a plan with no completed step it
\* keeps the same steps as the skip of the Supabase server.
C34_InMemorySkipAgreesWithSupabase ==
  InMemorySkip =>
    LET P == last.before.storage[last.call.plan_id]
        Q == plans[last.call.plan_id]
        N == WrittenCount(last.call.request)
    IN  /\ InMemorySkipKeeps(P.steps, P.current_step, N, Q.steps)
        /\ Q.total_steps = Len(Q.steps)
        /\ Flagged(P.steps, TRUE) = <<>> =>
             BodiesOf(Q.steps) = SupabaseSkipKeeps(P.steps,
                                                   last.call.request)

\* C34, amended: the same, except that on a plan with no completed step the
\* in-memory skip keeps the same steps as the skip of the Supabase server
\* only when N = 0; when N >= 1 it keeps the first step of the list, which
\* the Supabase server's skip removes.
C34_InMemorySkipKeepsFirstStep ==
  InMemorySkip =>
    LET P == last.before.storage[last.call.plan_id]
        Q == plans[last.call.plan_id]
        N == WrittenCount(last.call.request)
        kept == SupabaseSkipKeeps(P.steps, last.call.request)
    IN  /\ InMemorySkipKeeps(P.steps, P.current_step, N, Q.steps)
        /\ Q.total_steps = Len(Q.steps)
        /\ Flagged(P.steps, TRUE) = <<>> =>
             IF N = 0
             THEN BodiesOf(Q.steps) = kept
             ELSE /\ Q.steps[1] = P.steps[1]
                  /\ \A i \in 1..Len(kept) :
                       kept[i].title # P.steps[1].title

\* a skip with a count of at least 1 removed a step of a stored plan that
\* had more than one step
C34_Witness ==
  /\ InMemorySkip
  /\ WrittenCount(last.call.request) >= 1
  /\ Len(plans[last.call.plan_id].steps) <
       Len(last.before.storage[last.call.plan_id].steps)

\* the turn answered last called modify_plan, and nothing else, for plan ids
\* that are not stored
OnlyMissingPlanCalls ==
  /\ last.op = "chat"
  /\ last.intermediate_steps # <<>>
  /\ \A i \in 1..Len(last.intermediate_steps) :
       /\ last.intermediate_steps[i].tool = "modify_plan"
       /\ "error" \in DOMAIN last.intermediate_steps[i].tool_output

\* C39: in the in-memory server a modify_plan tool call for a plan id that
\* is not stored returns an error and leaves the plan storage as it was; the
\* turn that made it leaves the session's plan_id and the session's stage
\* (but for the finalize phrase of the reply) as they were and is not
\* reported as a plan screen.
C39_MissingPlanIsAnErrorOnly ==
  /\ (last.op = "modify_plan" /\
      last.call.plan_id \notin 1..Len(last.before.storage)) =>
       /\ "error" \in DOMAIN last.tool_output
       /\ plans = last.before.storage
  /\ OnlyMissingPlanCalls =>
       /\ plans = last.before.storage
       /\ goals[last.session].plan_id = last.before.plan_id
       /\ goals[last.session].stage =
            (IF last.before.stage = "onboarding" /\ AsksToFinalize[last.output]
             THEN "confirming" ELSE last.before.stage)
       /\ last.flag # "PLAN_SCREEN"

\* the last request was a modify_plan that left every step as it was: the
\* plan had no remaining step, or the request was a skip with count 0
ModifyChangingNoStep ==
  /\ ModifyOnPlan
  /\ \/ Flagged(StepsBefore, FALSE) = <<>>
     \/ /\ RequestTests[last.call.request].skip
        /\ WrittenCount(last.call.request) = 0

\* C35: a modify_plan that changes no step leaves the goal's stage and the
\* plan's status as they were.
C35_NoOpModifyKeepsStageAndStatus ==
  ModifyChangingNoStep =>
    /\ BodiesOf(StoredSteps(last.goal)) = BodiesOf(StepsBefore)
    /\ goals[last.goal].status = last.before.status
    /\ PlanStatusOf(PlansOf(plans, last.goal)) =
         PlanStatusOf(last.before.rows)

\* C36: in every reachable state a goal whose stored stage is active has a
\* plan, and the status of that plan is accepted, whatever requests for the
\* goal have been served and however they were interleaved.
C36_ActiveGoalHasAcceptedPlan ==
  \A g \in GoalIds :
    goals[g].status = "active" =>
      /\ PlansOf(plans, g) # <<>>
      /\ \A i \in 1..Len(plans) :
           plans[i].goal_id = g => plans[i].status = "accepted"

C38_TotalStepsIsLength ==
  \A i \in 1..Len(plans) : plans[i].total_steps = Len(plans[i].steps)

\* a create_plan result without steps was merged into a stored plan and
\* shortened its step list
C38_Witness ==
  /\ CreateOnPlan
  /\ ~last.call.user_data_ok
  /\ Len(StoredSteps(last.goal)) < Len(StepsBefore)
  /\ TotalStepsOf(PlansOf(plans, last.goal)) = Len(StoredSteps(last.goal))
====
